---- MODULE Spec2Model ----
(***************************************************************************)
(* host-installer backend (src/backend.py).                                *)
(*                                                                         *)
(* Part 1, specification Spec: performInstallation running its phases      *)
(* through executeSequence (Task.execute, output merge, progress,          *)
(* doCleanup).                                                             *)
(* Part 2, specification SpecDisk: writeDom0DiskPartitions on a            *)
(* PartitionTool, with the plan drawn from partitionTargetDisk.            *)
(***************************************************************************)
EXTENDS Integers, Sequences, FiniteSets, TLC

VARIABLES
    answers,        \* the answers dictionary: a function from the keys present to values
    ui,             \* whether a ui (progress observer) was passed
    phaseNo,        \* how many executeSequence calls performInstallation has made
    final,          \* executeSequence's 'cleanup' parameter for the current phase
    sequence,       \* the list of Tasks of the current phase
    idx,            \* number of loop iterations of 'for item in sequence' begun
    pc,             \* "perform" | "running" | "done" | "raised" | "complete"
    current,        \* executeSequence's local 'current'
    progress_total, \* executeSequence's local 'progress_total'
    pd,             \* scale given to ui.progress.initProgressDialog, -1 when pd is None
    updated_state,  \* executeSequence's local 'updated_state'
    exc,            \* the exception that left executeSequence, kind "none" if none
    invoked,        \* tags of the cleanup actions doCleanup has called, in call order
    failedLog,      \* tags logged "FAILED to perform cleanup action"
    nextTag,        \* identity of the next cleanup action to be registered
    started,        \* history: indexes of the tasks whose execute() was called this phase
    merged,         \* history: indexes of the tasks whose outputs were merged this phase
    carried,        \* history: tags registered in earlier phases that completed
    before,         \* history: answers as they were when the last task started
    tool,           \* PartitionTool.partitions: in-memory table, number -> record
    ondisk,         \* the partition table on the disk
    disk,           \* the target disk as found: [exists, sizeGB, partTableType, table]
    plan,           \* the planner's inputs, then the arguments of writeDom0DiskPartitions
    dpc,            \* "plan" | "planfailed" | "call" | "delete" | "create" | "remap" |
                    \* "commit" | "returned" | "raised"
    ops,            \* history: the PartitionTool calls made, in order
    commits,        \* number of tool.commit calls
    call,           \* the arguments of a single call of partitionTargetDisk or Task.execute
    result,         \* what that call returned or raised
    cpc             \* "idle" | "call" | "done"

seqVars == <<answers, ui, phaseNo, final, sequence, idx, pc, current, progress_total,
             pd, updated_state, exc, invoked, failedLog, nextTag, started, merged,
             carried, before>>
diskVars == <<tool, ondisk, disk, plan, dpc, ops, commits>>
callVars == <<call, result, cpc>>
vars == <<seqVars, diskVars, callVars>>

----------------------------------------------------------------------------
(* Bounds *)

MaxTasks == 3        \* longest Sequence drawn
MaxKeys == 2         \* most labels a Task binds or returns
MaxValues == 3       \* longest tuple a task function returns
MaxBackups == 3      \* most backups findXenSourceBackups finds

----------------------------------------------------------------------------
(* Helpers *)

RECURSIVE SeqsUpTo(_, _)
SeqsUpTo(S, n) ==
    IF n = 0 THEN {<<>>}
    ELSE LET shorter == SeqsUpTo(S, n - 1)
         IN shorter \cup {Append(s, x) : s \in {t \in shorter : Len(t) = n - 1}, x \in S}

Range(s) == {s[i] : i \in 1..Len(s)}

RECURSIVE Reverse(_)
Reverse(s) == IF s = <<>> THEN <<>> ELSE Append(Reverse(Tail(s)), Head(s))

EmptyMap == [k \in {} |-> 0]

NoExc == [kind |-> "none", at |-> 0]

----------------------------------------------------------------------------
(* Task and the kinds of task the sequences are drawn from *)

\* Task.__init__: fn, args (the labels A()/As() were given), returns, progress_scale.
Task(fn, args, returns, progress_scale) ==
    [fn |-> fn, args |-> args, returns |-> returns, progress_scale |-> progress_scale]

\* Task(util.getUUID, As(ans), ['installation-uuid'])
TaskGetUUID == Task("getUUID", <<>>, <<"installation-uuid">>, 1)

\* Task(repo.installPackages, A(ans, 'mounts'), [], progress_scale=100, ...)
TaskInstallPackages == Task("installPackages", <<"mounts">>, <<>>, 100)

\* Task(mountVolumes, A(ans, ..., 'cleanup'), ['mounts', 'cleanup'])
TaskMountVolumes == Task("mountVolumes", <<"cleanup">>, <<"mounts", "cleanup">>, 1)

\* Task(writeDMVSelections, A(ans, 'mounts', 'selected-multiversion-drivers'), [])
TaskWriteDMVSelections ==
    Task("writeDMVSelections", <<"mounts", "selected-multiversion-drivers">>, <<>>, 1)

TaskKinds == {TaskGetUUID, TaskInstallPackages, TaskMountVolumes, TaskWriteDMVSelections}

\* The lists a Sequence builder may hand to executeSequence.  getRepoSequence
\* returns [] for an empty repos list, so the empty list is one of them.
Sequences == SeqsUpTo(TaskKinds, MaxTasks)

\* A cleanup action (tag, f, a) as pushed by mountVolumes.
CleanupAction(tag) == [tag |-> tag, f |-> "util.umount", a |-> <<tag>>]

\* What the function of a task may do besides raising: whether
\* chooseDefaultDriverVariants picks any variant (1) or none (0).
Choices(fn) ==
    IF fn = "writeDMVSelections" THEN {0, 1} ELSE {0}

\* The return value of self.fn(*args), as a tuple (rv = (rv,) when it is no tuple).
FnReturn(item, a, ch) ==
    CASE item.fn = "getUUID" -> <<"uuid">>
      [] item.fn = "mountVolumes" ->
            <<"/tmp/root", Append(a["cleanup"], CleanupAction(nextTag))>>
      [] OTHER -> <<"None">>

\* What self.fn(*args) does to the objects it was handed.  A() passes the very
\* objects the dictionary holds, so a list the function appends to is changed in
\* the dictionary: writeDMVSelections appends the default variants to an empty
\* selected_multiversion_drivers.
FnEffect(item, a, ch) ==
    IF /\ item.fn = "writeDMVSelections"
       /\ "selected-multiversion-drivers" \in DOMAIN a
       /\ Len(a["selected-multiversion-drivers"]) = 0
       /\ ch = 1
    THEN [a EXCEPT !["selected-multiversion-drivers"] = <<"default-variant">>]
    ELSE a

\* for r in range(len(ret)): myrv[ret[r]] = rv[r]
\* rv[r] is an IndexError when rv is shorter than ret; values of rv beyond
\* len(ret) are never read; a key listed twice keeps its last value.
ZipReturns(ret, rv) ==
    IF Len(rv) < Len(ret)
    THEN [ok |-> FALSE, error |-> "IndexError", map |-> EmptyMap]
    ELSE [ok |-> TRUE, error |-> "",
          map |-> [k \in Range(ret) |->
                     rv[CHOOSE r \in 1..Len(ret) :
                           ret[r] = k /\ \A q \in 1..Len(ret) : ret[q] = k => q <= r]]]

\* Task.execute: zip the labels in 'returns' with the values returned.
Execute(item, a, ch) == ZipReturns(item.returns, FnReturn(item, a, ch)).map

\* for state_item in updated_state: answers[state_item] = updated_state[state_item]
Merge(a, us) ==
    [k \in DOMAIN a \cup DOMAIN us |-> IF k \in DOMAIN us THEN us[k] ELSE a[k]]

\* reduce(lambda x, y: x + y, [task.progress_scale for task in sequence])
RECURSIVE ProgressTotal(_)
ProgressTotal(s) ==
    IF Len(s) = 1 THEN s[1].progress_scale
    ELSE ProgressTotal(SubSeq(s, 1, Len(s) - 1)) + s[Len(s)].progress_scale

\* A final phase that forgets the del.
DelCleanupForgotten(a) == a

\* del answers['cleanup']
DelCleanup(a) == [k \in DOMAIN a \ {"cleanup"} |-> a[k]]

\* doCleanup(actions): the order in which the actions are called.
DoCleanupOrder(actions) == [i \in 1..Len(actions) |-> actions[i].tag]

\* A doCleanup without the try/except: the first failing action ends the loop.
DoCleanupCallsUnguarded(actions, fails) ==
    LET order == DoCleanupOrder(actions)
    IN IF fails = {} THEN order
       ELSE SubSeq(order, 1, CHOOSE i \in fails : \A j \in fails : i <= j)

\* doCleanup(actions) when the actions at the indexes in 'fails' raise: the
\* bare except logs the failure and the loop goes on to the next action.
DoCleanupCalls(actions, fails) == DoCleanupOrder(actions)

DoCleanupFailed(actions, fails) == {actions[i].tag : i \in fails}

\* except: doCleanup(answers['cleanup']); raise -- the exceptions of the cleanup
\* actions were handled inside doCleanup, so the bare raise re-raises e.
Reraise(e, actions, fails) == e

----------------------------------------------------------------------------
(* performInstallation / executeSequence *)

DiskIdle ==
    /\ tool = EmptyMap /\ ondisk = EmptyMap
    /\ disk = EmptyMap
    /\ plan = EmptyMap /\ dpc = "idle" /\ ops = <<>> /\ commits = 0

CallIdle == call = EmptyMap /\ result = EmptyMap /\ cpc = "idle"

Init ==
    /\ \E sel \in {<<>>, <<"chosen-variant">>} :
          answers = [k \in {"selected-multiversion-drivers"} |-> sel]
    /\ ui \in BOOLEAN
    /\ phaseNo = 0 /\ final = FALSE /\ sequence = <<>> /\ idx = 0
    /\ pc = "perform"
    /\ current = 0 /\ progress_total = 0 /\ pd = -1
    /\ updated_state = EmptyMap
    /\ exc = NoExc
    /\ invoked = <<>> /\ failedLog = {}
    /\ nextTag = 1
    /\ started = <<>> /\ merged = <<>> /\ carried = {} /\ before = EmptyMap
    /\ DiskIdle
    /\ CallIdle

\* performInstallation: prep_seq and the main repository sequence with
\* cleanup=False, then fin_seq with cleanup=True.
PhaseIsFinal(n) == n > 2

\* executeSequence up to the start of the loop.
StartSequence ==
    /\ pc \in {"perform", "done"}
    /\ \E seq \in Sequences :
        /\ phaseNo' = phaseNo + 1
        /\ final' = PhaseIsFinal(phaseNo + 1)
        /\ sequence' = seq
        /\ answers' = Merge(answers, [k \in {"cleanup", "ui"} |->
                                         IF k = "cleanup" THEN <<>> ELSE <<ui>>])
        /\ carried' = carried \cup
                        (IF "cleanup" \in DOMAIN answers
                         THEN {answers["cleanup"][i].tag : i \in 1..Len(answers["cleanup"])}
                         ELSE {})
        /\ started' = <<>> /\ merged' = <<>> /\ idx' = 0
        /\ updated_state' = EmptyMap
        /\ IF seq = <<>>
           THEN \* reduce() of an empty sequence with no initial value: TypeError
                /\ pc' = "raised"
                /\ exc' = [kind |-> "TypeError", at |-> 0]
                /\ UNCHANGED <<current, progress_total, pd>>
           ELSE /\ pc' = "running"
                /\ progress_total' = ProgressTotal(seq)
                /\ pd' = IF ui THEN ProgressTotal(seq) ELSE -1
                /\ current' = 0
                /\ exc' = NoExc
    /\ UNCHANGED <<ui, invoked, failedLog, nextTag, before>>
    /\ UNCHANGED <<diskVars, callVars>>

\* One iteration of the loop in which item.execute returns.
ExecuteTask ==
    /\ pc = "running" /\ idx < Len(sequence)
    /\ LET item == sequence[idx + 1] IN
       \E ch \in Choices(item.fn) :
          LET us == Execute(item, answers, ch) IN
            /\ updated_state' = us
            /\ answers' = Merge(FnEffect(item, answers, ch), us)
            /\ current' = current + item.progress_scale
            /\ nextTag' = IF item.fn = "mountVolumes" THEN nextTag + 1 ELSE nextTag
    /\ before' = answers
    /\ idx' = idx + 1
    /\ started' = Append(started, idx + 1)
    /\ merged' = Append(merged, idx + 1)
    /\ UNCHANGED <<ui, phaseNo, final, sequence, pc, progress_total, pd, exc, invoked,
                   failedLog, carried>>
    /\ UNCHANGED <<diskVars, callVars>>

\* A loop that logs the exception of a task and goes on with the next task.
TaskRaisesSwallowed ==
    /\ pc = "running" /\ idx < Len(sequence)
    /\ before' = answers
    /\ idx' = idx + 1
    /\ started' = Append(started, idx + 1)
    /\ UNCHANGED <<answers, ui, phaseNo, final, sequence, pc, current, progress_total, pd,
                   updated_state, exc, invoked, failedLog, nextTag, merged, carried>>
    /\ UNCHANGED <<diskVars, callVars>>

\* One iteration of the loop in which item.execute raises: doCleanup, then raise.
TaskRaises ==
    /\ pc = "running" /\ idx < Len(sequence)
    /\ LET item == sequence[idx + 1] IN
       \E ch \in Choices(item.fn), late \in BOOLEAN :
          \* the function may raise before or after what it does to its arguments
          LET heap == IF late THEN FnEffect(item, answers, ch) ELSE answers
              actions == heap["cleanup"]
          IN \E fails \in SUBSET (1..Len(actions)) :
                /\ answers' = heap
                /\ invoked' = invoked \o DoCleanupCalls(actions, fails)
                /\ failedLog' = failedLog \cup DoCleanupFailed(actions, fails)
                /\ exc' = Reraise([kind |-> "task", at |-> idx + 1], actions, fails)
    /\ before' = answers
    /\ idx' = idx + 1
    /\ started' = Append(started, idx + 1)
    /\ pc' = "raised"
    /\ UNCHANGED <<ui, phaseNo, final, sequence, current, progress_total, pd,
                   updated_state, nextTag, merged, carried>>
    /\ UNCHANGED <<diskVars, callVars>>

\* The else: branch of the try, after the last task returned.
SequenceSucceeds ==
    /\ pc = "running" /\ idx = Len(sequence)
    /\ IF final
       THEN \E fails \in SUBSET (1..Len(answers["cleanup"])) :
              /\ invoked' = invoked \o DoCleanupCalls(answers["cleanup"], fails)
              /\ failedLog' = failedLog \cup DoCleanupFailed(answers["cleanup"], fails)
              /\ answers' = DelCleanup(answers)
              /\ pc' = "complete"
       ELSE /\ pc' = "done"
            /\ UNCHANGED <<answers, invoked, failedLog>>
    /\ UNCHANGED <<ui, phaseNo, final, sequence, idx, current, progress_total, pd,
                   updated_state, exc, nextTag, started, merged, carried, before>>
    /\ UNCHANGED <<diskVars, callVars>>

Next == StartSequence \/ ExecuteTask \/ TaskRaises \/ SequenceSucceeds

Spec == Init /\ [][Next]_vars

----------------------------------------------------------------------------
(* partitionTargetDisk and writeDom0DiskPartitions *)

MaxExistingPart == 3   \* highest partition number in a table found on the disk

\* The constants module: partition sizes in MiB, the minimum disk size in GB.
constants ==
    [logs_size |-> 4096, backup_size |-> 18432, root_size |-> 18432, boot_size |-> 512,
     swap_size |-> 1024, min_primary_disk_size |-> 46]

\* Size of a disk of gb GB in MiB.
DiskMiB(gb) == gb * 1024

\* A partition found on the disk before the installer runs: partition n is
\* 1024 MiB long and the partitions follow each other from 1 MiB on.
ExistingPartition(n, id) ==
    [start |-> 1 + (n - 1) * 1024, size |-> 1024, id |-> id, active |-> FALSE,
     partlabel |-> "existing"]

ExistingTables ==
    UNION {[nums -> {"UTILITY", "LINUX"}] : nums \in SUBSET (1..MaxExistingPart)}

TableOf(ids) == [n \in DOMAIN ids |-> ExistingPartition(n, ids[n])]

\* PartitionTool.utilityPartitions(): the numbers of the utility partitions.
UtilityPartitions(table) == {n \in DOMAIN table : table[n].id = "UTILITY"}

MaxOf(S) == CHOOSE x \in S : \A y \in S : y <= x

NoExisting == [present |-> FALSE]

Raise(msg) == [ok |-> FALSE, error |-> msg]

\* A boot partition whose type id is never looked at.
BootIdUnchecked(existing) == TRUE

\* not ('id' not in boot_part or boot_part['id'] != GPTPartitionTool.ID_EFI_BOOT)
BootIdOk(existing) ==
    /\ existing.boot \in DOMAIN existing.table
    /\ existing.table[existing.boot].id = "EFI_BOOT"

\* An upgrade that always puts boot at root + 3.
UpgradePlanBootByConvention(existing) ==
    LET primary_part == existing.root
    IN <<primary_part, primary_part + 1,
         IF primary_part + 2 \in DOMAIN existing.table THEN primary_part + 2 ELSE 0,
         primary_part + 3, primary_part + 4, primary_part + 5>>

\* The tuple the upgrade branch returns: storage is root + 2 when
\* tool.getPartition(primary_part+2) finds a partition, else 0.
UpgradePlan(existing) ==
    LET primary_part == existing.root
        boot_partnum == IF existing.hasBoot THEN existing.boot ELSE primary_part + 3
    IN <<primary_part, primary_part + 1,
         IF primary_part + 2 \in DOMAIN existing.table THEN primary_part + 2 ELSE 0,
         boot_partnum, primary_part + 4, primary_part + 5>>

\* A planner that accepts keeping the first partition of a DOS table.
DosPreserveAccepted(probe, preserve_first_partition) == FALSE

\* Cannot preserve partition for legacy DOS partition table.
DosPreserveUnsupported(probe, preserve_first_partition) ==
    /\ probe.partTableType = "DOS"
    /\ \/ preserve_first_partition = "true"
       \/ preserve_first_partition = "if-utility" /\ UtilityPartitions(probe.table) # {}

\* A fresh plan with storage 0 and boot, logs, swap numbered right after backup
\* when no storage partition is to be made.
FreshPlanShiftedDown(primary_part, create_sr_part) ==
    IF create_sr_part
    THEN <<primary_part, primary_part + 1, primary_part + 2, primary_part + 3,
           primary_part + 4, primary_part + 5>>
    ELSE <<primary_part, primary_part + 1, 0, primary_part + 2,
           primary_part + 3, primary_part + 4>>

\* A fresh plan whose boot partition always follows backup.
FreshPlanBootAfterBackup(primary_part, create_sr_part) ==
    <<primary_part, primary_part + 1,
      IF create_sr_part THEN primary_part + 2 ELSE -1,
      primary_part + 2, primary_part + 4, primary_part + 5>>

\* sr_part = -1 unless create_sr_part; boot_part = max(primary_part + 1, sr_part) + 1;
\* the tuple the fresh branch returns.
FreshPlan(primary_part, create_sr_part) ==
    LET sr_part == IF create_sr_part THEN primary_part + 2 ELSE -1
        boot_part == (IF primary_part + 1 > sr_part THEN primary_part + 1 ELSE sr_part) + 1
    IN <<primary_part, primary_part + 1, sr_part, boot_part,
         primary_part + 4, primary_part + 5>>

\* A planner that accepts a utility partition numbered 2.
UtilityBeyondSecond(primary_part) == primary_part > 3

\* primary_part += max(utilparts+[0]); if primary_part > 2: raise
UtilityBeyondFirst(primary_part) == primary_part > 2

\* partitionTargetDisk(disk, existing, preserve_first_partition, create_sr_part).
\* 'probe' is what PartitionTool(disk) reads: [partTableType, table];
\* 'existing' is NoExisting or [present, table, root, hasBoot, boot].
partitionTargetDisk(probe, existing, preserve_first_partition, create_sr_part) ==
    IF existing.present
    THEN IF existing.hasBoot /\ ~BootIdOk(existing)
         THEN Raise("Boot partition is not set up for UEFI mode or missing EFI partition ID.")
         ELSE [ok |-> TRUE, plan |-> UpgradePlan(existing)]
    ELSE LET utilparts == UtilityPartitions(probe.table)
         IN IF DosPreserveUnsupported(probe, preserve_first_partition)
            THEN Raise("Preserving initial partition on DOS unsupported")
            ELSE IF preserve_first_partition = "true" /\ 1 \notin DOMAIN probe.table
            THEN Raise("No first partition to preserve")
            ELSE LET primary_part ==
                        IF preserve_first_partition = "true" THEN 2
                        ELSE IF preserve_first_partition = "if-utility"
                        THEN 1 + MaxOf(utilparts \cup {0})
                        ELSE 1
                 IN IF preserve_first_partition = "if-utility" /\ UtilityBeyondFirst(primary_part)
                    THEN Raise("Installer only supports a single Utility Partition at partition 1")
                    ELSE [ok |-> TRUE, plan |-> FreshPlan(primary_part, create_sr_part)]

\* The arguments Task(writeDom0DiskPartitions, A(ans, 'primary-disk', 'boot-partnum',
\* 'primary-partnum', 'backup-partnum', 'logs-partnum', 'swap-partnum',
\* 'storage-partnum', 'sr-at-end')) binds from the planner's outputs.
PlanArgs(t, sr_at_end) ==
    [primary_partnum |-> t[1], backup_partnum |-> t[2], storage_partnum |-> t[3],
     boot_partnum |-> t[4], logs_partnum |-> t[5], swap_partnum |-> t[6],
     sr_at_end |-> sr_at_end]

\* PartitionTool: end of the last partition of the in-memory table, 1 MiB when empty.
NextFree(parts) ==
    IF DOMAIN parts = {} THEN 1
    ELSE MaxOf({parts[n].start + parts[n].size : n \in DOMAIN parts})

\* PartitionTool.createPartition(id, sizeBytes, number, startBytes, active, label)
\* on the in-memory table; size 0 stands for "no size given": to the end of the disk.
createPartition(parts, diskMiB, id, size, number, start, label) ==
    LET st == IF start = 0 THEN NextFree(parts) ELSE start
        sz == IF size = 0 THEN diskMiB - st ELSE size
    IN [n \in DOMAIN parts \cup {number} |->
          IF n = number
          THEN [start |-> st, size |-> sz, id |-> id, active |-> FALSE, partlabel |-> label]
          ELSE parts[n]]

\* PartitionTool.deletePartition(number) on the in-memory table.
deletePartition(parts, number) == [n \in DOMAIN parts \ {number} |-> parts[n]]

\* A loop that clears the whole table.
ShouldDeleteAll(num, primary_partnum) == TRUE

\* for num, part in tool.items(): if num >= primary_partnum: tool.deletePartition(num)
ShouldDelete(num, primary_partnum) == num >= primary_partnum

\* order = primary_partnum, then order += 1 after each createPartition call.
Numbered(pl, calls) ==
    [i \in 1..Len(calls) |->
        [id |-> calls[i].id, size |-> calls[i].size, number |-> calls[i].number,
         start |-> calls[i].start, label |-> calls[i].label,
         order |-> pl.primary_partnum + i - 1]]

\* Create logs partition: at 1 MiB when order == 1, else after the kept partition.
LogsCall(pl) ==
    <<[id |-> "LINUX", size |-> constants.logs_size, number |-> pl.logs_partnum,
       start |-> IF pl.primary_partnum = 1 THEN 1 ELSE 0, label |-> "logs"]>>

\* Create backup partition, if backup_partnum > 0.
BackupCall(pl) ==
    IF pl.backup_partnum > 0
    THEN <<[id |-> "LINUX", size |-> constants.backup_size, number |-> pl.backup_partnum,
            start |-> 0, label |-> "backup"]>>
    ELSE <<>>

\* Create dom0, Boot and swap partitions.
FixedCalls(pl) ==
    <<[id |-> "LINUX", size |-> constants.root_size, number |-> pl.primary_partnum,
       start |-> 0, label |-> "root"],
      [id |-> "EFI_BOOT", size |-> constants.boot_size, number |-> pl.boot_partnum,
       start |-> 0, label |-> "boot"],
      [id |-> "LINUX_SWAP", size |-> constants.swap_size, number |-> pl.swap_partnum,
       start |-> 0, label |-> "swap"]>>

\* Create LVM partition, if storage_partnum > 0: no sizeBytes is given.
StorageCall(pl) ==
    IF pl.storage_partnum > 0
    THEN <<[id |-> "LINUX_LVM", size |-> 0, number |-> pl.storage_partnum,
            start |-> 0, label |-> "storage"]>>
    ELSE <<>>

\* A layout that creates the storage partition before root, boot and swap.
CreateCallsStorageEarly(pl) ==
    Numbered(pl, LogsCall(pl) \o BackupCall(pl) \o StorageCall(pl) \o FixedCalls(pl))

\* The createPartition calls of the normal layout, in the order they are made:
\* logs, backup (if numbered), root, boot, swap, storage (if numbered).
CreateCalls(pl) ==
    Numbered(pl, LogsCall(pl) \o BackupCall(pl) \o FixedCalls(pl) \o StorageCall(pl))

RECURSIVE DeleteEach(_, _)
DeleteEach(parts, nums) ==
    IF nums = {} THEN parts
    ELSE LET n == CHOOSE x \in nums : \A y \in nums : x <= y
         IN DeleteEach(deletePartition(parts, n), nums \ {n})

RECURSIVE ApplyCreates(_, _, _)
ApplyCreates(parts, diskMiB, calls) ==
    IF calls = <<>> THEN parts
    ELSE LET c == Head(calls)
         IN ApplyCreates(createPartition(parts, diskMiB, c.id, c.size, c.number, c.start,
                                         c.label),
                         diskMiB, Tail(calls))

Op(name, num) == [op |-> name, num |-> num]

RECURSIVE SortedSeq(_)
SortedSeq(S) ==
    IF S = {} THEN <<>>
    ELSE LET m == CHOOSE x \in S : \A y \in S : x <= y
         IN <<m>> \o SortedSeq(S \ {m})

InitDisk ==
    /\ \E ids \in ExistingTables, ex \in BOOLEAN,
          gb \in {constants.min_primary_disk_size - 1, constants.min_primary_disk_size,
                 2 * constants.min_primary_disk_size},
          tt \in {"DOS", "GPT"} :
          /\ disk = [exists |-> ex, sizeGB |-> gb, partTableType |-> tt,
                     table |-> TableOf(ids)]
          /\ ondisk = TableOf(ids)
    /\ \E pfp \in {"true", "false", "if-utility"}, sr \in BOOLEAN, atend \in BOOLEAN :
          plan = [preserve_first_partition |-> pfp, create_sr_part |-> sr,
                  sr_at_end |-> atend]
    /\ tool = EmptyMap
    /\ dpc = "plan" /\ ops = <<>> /\ commits = 0
    /\ answers = EmptyMap /\ ui = FALSE
    /\ phaseNo = 0 /\ final = FALSE /\ sequence = <<>> /\ idx = 0
    /\ pc = "idle"
    /\ current = 0 /\ progress_total = 0 /\ pd = -1
    /\ updated_state = EmptyMap
    /\ exc = NoExc
    /\ invoked = <<>> /\ failedLog = {}
    /\ nextTag = 1
    /\ started = <<>> /\ merged = <<>> /\ carried = {} /\ before = EmptyMap
    /\ CallIdle

\* The task partitionTargetDisk of a fresh install: 'installation-to-overwrite'
\* is not set, the outputs become the six *-partnum keys.
PlanTask ==
    /\ dpc = "plan"
    /\ LET r == partitionTargetDisk(disk, NoExisting, plan.preserve_first_partition,
                                    plan.create_sr_part)
       IN IF r.ok
          THEN /\ plan' = PlanArgs(r.plan, plan.sr_at_end)
               /\ dpc' = "call"
          ELSE /\ dpc' = "planfailed"
               /\ UNCHANGED plan
    /\ UNCHANGED <<tool, ondisk, disk, ops, commits>>
    /\ UNCHANGED <<seqVars, callVars>>

\* A check that forgets the size test.
DiskCheckNoSize ==
    /\ dpc = "call"
    /\ IF ~disk.exists
       THEN dpc' = "raised" /\ UNCHANGED tool
       ELSE dpc' = "delete" /\ tool' = ondisk
    /\ UNCHANGED <<ondisk, disk, plan, ops, commits>>
    /\ UNCHANGED <<seqVars, callVars>>

\* writeDom0DiskPartitions up to tool = PartitionTool(disk, PARTITION_GPT).
DiskCheck ==
    /\ dpc = "call"
    /\ IF ~disk.exists
       THEN dpc' = "raised" /\ UNCHANGED tool
       ELSE IF disk.sizeGB < constants.min_primary_disk_size
       THEN dpc' = "raised" /\ UNCHANGED tool
       ELSE dpc' = "delete" /\ tool' = ondisk
    /\ UNCHANGED <<ondisk, disk, plan, ops, commits>>
    /\ UNCHANGED <<seqVars, callVars>>

\* The loop deleting the old partitions.
DeleteOld ==
    /\ dpc = "delete"
    /\ LET gone == {n \in DOMAIN tool : ShouldDelete(n, plan.primary_partnum)}
       IN /\ tool' = DeleteEach(tool, gone)
          /\ ops' = ops \o [i \in 1..Cardinality(gone) |-> Op("delete", SortedSeq(gone)[i])]
    /\ dpc' = "create"
    /\ UNCHANGED <<ondisk, disk, plan, commits>>
    /\ UNCHANGED <<seqVars, callVars>>

\* A createPartition that writes each new partition straight to the disk.
CreateLayoutEager ==
    /\ dpc = "create"
    /\ LET calls == CreateCalls(plan) IN
       \E k \in 0..Len(calls) :
          LET done == SubSeq(calls, 1, k) IN
          /\ tool' = ApplyCreates(tool, DiskMiB(disk.sizeGB), done)
          /\ ondisk' = ApplyCreates(tool, DiskMiB(disk.sizeGB), done)
          /\ ops' = ops \o [i \in 1..k |-> Op("create", done[i].number)]
          /\ dpc' = IF k < Len(calls) THEN "raised"
                    ELSE IF plan.sr_at_end THEN "commit" ELSE "remap"
    /\ UNCHANGED <<disk, plan, commits>>
    /\ UNCHANGED <<seqVars, callVars>>

\* The createPartition calls of the normal layout; the first k succeed and, when
\* k is less than their number, the next one raises.
CreateLayout ==
    /\ dpc = "create"
    /\ LET calls == CreateCalls(plan) IN
       \E k \in 0..Len(calls) :
          LET done == SubSeq(calls, 1, k) IN
          /\ tool' = ApplyCreates(tool, DiskMiB(disk.sizeGB), done)
          /\ ops' = ops \o [i \in 1..k |-> Op("create", done[i].number)]
          /\ dpc' = IF k < Len(calls) THEN "raised"
                    ELSE IF plan.sr_at_end THEN "commit" ELSE "remap"
    /\ UNCHANGED <<ondisk, disk, plan, commits>>
    /\ UNCHANGED <<seqVars, callVars>>

\* A remap that rewrites the three partitions where they already are.
NewPartsInPlace(t, p, b, s) ==
    [n \in {p, s} \cup (IF b > 0 THEN {b} ELSE {}) |-> t[n]]

\* new_parts: root starts at the old root start plus the storage size, backup
\* follows the new root, storage starts at the old root start; size, id, active
\* and partlabel are copied.
NewParts(t, p, b, s) ==
    LET newp == [t[p] EXCEPT !.start = t[p].start + t[s].size]
        newb == [t[b] EXCEPT !.start = newp.start + newp.size]
        news == [t[s] EXCEPT !.start = t[p].start]
    IN [n \in {p, s} \cup (IF b > 0 THEN {b} ELSE {}) |->
          IF n = p THEN newp ELSE IF n = s THEN news ELSE newb]

\* if not sr_at_end: the out-of-order layout.  tool.partitions[storage_partnum]
\* is a KeyError when the plan has no storage partition.
Remap ==
    /\ dpc = "remap"
    /\ IF plan.storage_partnum \notin DOMAIN tool
       THEN dpc' = "raised" /\ UNCHANGED <<tool, ops>>
       ELSE LET p == plan.primary_partnum
                b == plan.backup_partnum
                s == plan.storage_partnum
                new_parts == NewParts(tool, p, b, s)
                todo == SelectSeq(<<p, b, s>>, LAMBDA n : n > 0)
            IN \E k \in 0..Len(todo) :
                 /\ tool' = [n \in DOMAIN tool |->
                               IF \E i \in 1..k : todo[i] = n THEN new_parts[n] ELSE tool[n]]
                 /\ ops' = ops \o [i \in 1..(2 * k) |->
                                     IF i % 2 = 1 THEN Op("delete", todo[(i + 1) \div 2])
                                     ELSE Op("create", todo[i \div 2])]
                 /\ dpc' = IF k < Len(todo) THEN "raised" ELSE "commit"
    /\ UNCHANGED <<ondisk, disk, plan, commits>>
    /\ UNCHANGED <<seqVars, callVars>>

\* tool.commit(log=True)
Commit ==
    /\ dpc = "commit"
    /\ ondisk' = tool
    /\ commits' = commits + 1
    /\ ops' = Append(ops, Op("commit", 0))
    /\ dpc' = "returned"
    /\ UNCHANGED <<tool, disk, plan>>
    /\ UNCHANGED <<seqVars, callVars>>

NextDisk == PlanTask \/ DiskCheck \/ DeleteOld \/ CreateLayout \/ Remap \/ Commit

SpecDisk == InitDisk /\ [][NextDisk]_vars

----------------------------------------------------------------------------
(* partitionTargetDisk called on its own *)

\* executeSequence is not running.
SeqIdle ==
    /\ answers = EmptyMap /\ ui = FALSE
    /\ phaseNo = 0 /\ final = FALSE /\ sequence = <<>> /\ idx = 0
    /\ pc = "idle"
    /\ current = 0 /\ progress_total = 0 /\ pd = -1
    /\ updated_state = EmptyMap
    /\ exc = NoExc
    /\ invoked = <<>> /\ failedLog = {}
    /\ nextTag = 1
    /\ started = <<>> /\ merged = <<>> /\ carried = {} /\ before = EmptyMap

\* Existing installations: root at r and backup at r+1; r+2 and r+3 may each hold
\* a partition (storage or boot); the product's boot device, when it has one, is
\* r+2 or r+3.  A boot number with no record in the table stands for a boot
\* partition record without an 'id'.
ExistingInstallations ==
    UNION {
      {[present |-> TRUE, root |-> r, hasBoot |-> hb, boot |-> bn,
        table |-> [n \in {r, r + 1} \cup DOMAIN ids |->
                     ExistingPartition(n, IF n \in DOMAIN ids THEN ids[n] ELSE "LINUX")]] :
         ids \in UNION {[nums -> {"EFI_BOOT", "LINUX", "LINUX_LVM"}] :
                          nums \in SUBSET {r + 2, r + 3}},
         hb \in BOOLEAN, bn \in {r + 2, r + 3}} :
      r \in {1, 2}}

InitPlan ==
    /\ \/ \E ids \in ExistingTables, tt \in {"DOS", "GPT"},
             pfp \in {"true", "false", "if-utility"}, sr \in BOOLEAN :
             call = [probe |-> [partTableType |-> tt, table |-> TableOf(ids)],
                     existing |-> NoExisting,
                     preserve_first_partition |-> pfp, create_sr_part |-> sr]
       \/ \E ex \in ExistingInstallations,
             pfp \in {"true", "false", "if-utility"}, sr \in BOOLEAN :
             call = [probe |-> [partTableType |-> "GPT", table |-> ex.table],
                     existing |-> ex,
                     preserve_first_partition |-> pfp, create_sr_part |-> sr]
    /\ result = EmptyMap
    /\ cpc = "ready"
    /\ SeqIdle
    /\ DiskIdle

\* The call partitionTargetDisk(disk, existing, preserve_first_partition, create_sr_part).
PlanCall ==
    /\ cpc = "ready"
    /\ result' = partitionTargetDisk(call.probe, call.existing,
                                     call.preserve_first_partition, call.create_sr_part)
    /\ cpc' = "done"
    /\ UNCHANGED call
    /\ UNCHANGED <<seqVars, diskVars>>

NextPlan == PlanCall

SpecPlan == InitPlan /\ [][NextPlan]_vars

Planned == cpc = "done" /\ result.ok

FreshCall == ~call.existing.present

----------------------------------------------------------------------------
(* Task.execute called on its own *)

BindOk(args) == [ok |-> TRUE, error |-> "", args |-> args]

BindFailed(e) == [ok |-> FALSE, error |-> e, args |-> <<>>]

\* lambda a: [a[x] for x in ...]: indexing the context, a KeyError on an absent key.
DirectIndex(params, a) ==
    IF \E i \in 1..Len(params) : params[i] \notin DOMAIN a
    THEN BindFailed("KeyError")
    ELSE BindOk([i \in 1..Len(params) |-> a[params[i]]])

\* A binding that refuses an absent key.
AMissingKeyFails(params, a) == DirectIndex(params, a)

\* A = lambda ans, *params: (lambda a: [a.get(param) for param in params])
\* dict.get gives None for an absent key.
A(params, a) ==
    BindOk([i \in 1..Len(params) |->
               IF params[i] \in DOMAIN a THEN a[params[i]] ELSE "None"])

\* As = lambda ans, *params: (lambda _: [ans.get(param) for param in params])
\* The list is built when the lambda is called, from the dictionary object 'ans'
\* named when the Sequence was built; 'ans' is that object's content at the call,
\* 'built' its content when the Sequence was built.
As(params, ans, built) == A(params, ans)

\* performInstallation builds every Sequence from the dictionary it then hands
\* to executeSequence (getPrepSequence(answers, ...) / executeSequence(prep_seq,
\* ..., answers, ...), and likewise for the repository and finalisation
\* Sequences): the object As captured is the context the tasks update.
CapturedAns(c) == c.ctx

\* What self.fn(*args) hands back: None, one value that is no tuple, or a tuple
\* of n values.  The i-th value is written i, None is written 0.
RawReturns ==
    {[isTuple |-> FALSE, items |-> <<0>>], [isTuple |-> FALSE, items |-> <<1>>]}
       \cup {[isTuple |-> TRUE, items |-> [i \in 1..n |-> i]] : n \in 0..MaxValues}

\* if type(rv) is not tuple: rv = (rv,)
WrapTuple(raw) == raw.items

\* How many values the function returned: none for None.
ValuesReturned(raw) ==
    IF ~raw.isTuple /\ raw.items = <<0>> THEN 0 ELSE Len(raw.items)

TaskResult(status, error, wasInvoked, args, map) ==
    [status |-> status, error |-> error, invoked |-> wasInvoked, args |-> args, map |-> map]

\* Task.execute(answers) for the task and context held in 'call'.
TaskExecuteResult(c) ==
    LET b == IF c.binding = "A" THEN A(c.params, c.ctx)
             ELSE IF c.binding = "As" THEN As(c.params, CapturedAns(c), c.built)
             ELSE DirectIndex(c.params, c.ctx)
    IN IF ~b.ok THEN TaskResult("raised", b.error, FALSE, <<>>, EmptyMap)
       ELSE IF c.fnRaises THEN TaskResult("raised", "fn", TRUE, b.args, EmptyMap)
       ELSE LET z == ZipReturns(c.returns, WrapTuple(c.raw))
            IN IF z.ok THEN TaskResult("returned", "", TRUE, b.args, z.map)
               ELSE TaskResult("raised", z.error, TRUE, b.args, EmptyMap)

InitTask ==
    /\ \E params \in SeqsUpTo({"p", "q"}, MaxKeys), present \in SUBSET {"p", "q"},
          returns \in SeqsUpTo({"k1", "k2"}, MaxKeys), raw \in RawReturns,
          fnRaises \in BOOLEAN, binding \in {"A", "As", "index"} :
          \E ctx \in [present -> {"x", "y"}], builtKeys \in SUBSET present :
             call = [params |-> params, ctx |-> ctx,
                     built |-> [k \in builtKeys |-> "x"],
                     returns |-> returns, raw |-> raw, fnRaises |-> fnRaises,
                     binding |-> binding]
    /\ result = EmptyMap
    /\ cpc = "ready"
    /\ SeqIdle
    /\ DiskIdle

TaskExecute ==
    /\ cpc = "ready"
    /\ result' = TaskExecuteResult(call)
    /\ cpc' = "done"
    /\ UNCHANGED call
    /\ UNCHANGED <<seqVars, diskVars>>

NextTask == TaskExecute

SpecTask == InitTask /\ [][NextTask]_vars

----------------------------------------------------------------------------
(* What executeSequence logs while it runs one task *)

\* Task.__init__ with args_sensitive.  Context values are tuples of strings.
LoggedTask(fn, args, returns, args_sensitive) ==
    [fn |-> fn, args |-> args, returns |-> returns, args_sensitive |-> args_sensitive]

\* Task(setRootPassword, A(ans, 'mounts', 'root-password'), [], args_sensitive=True)
TaskSetRootPassword == LoggedTask("setRootPassword", <<"mounts", "root-password">>, <<>>, TRUE)

\* Task(setTimeZone, A(ans, 'mounts', 'timezone'), [])
TaskSetTimeZone == LoggedTask("setTimeZone", <<"mounts", "timezone">>, <<>>, FALSE)

\* Task(util.getUUID, As(ans), ['installation-uuid'])
TaskLoggedGetUUID == LoggedTask("getUUID", <<>>, <<"installation-uuid">>, FALSE)

\* The strings that "%s" % v prints for a value v.
Printed(v) == Range(v)

PrintedAll(vs) == UNION {Printed(vs[i]) : i \in 1..Len(vs)}

\* A pre-invocation log that prints the arguments of every task.
EvaluatingRecordUnguarded(item, args) ==
    [kind |-> "TASK", text |-> {item.fn} \cup PrintedAll(args)]

\* "TASK: Evaluating %s%s" % (self.fn, args) unless args_sensitive, else
\* "TASK: Evaluating %s (sensitive data in arguments: not logging)" % self.fn
EvaluatingRecord(item, args) ==
    IF ~item.args_sensitive
    THEN [kind |-> "TASK", text |-> {item.fn} \cup PrintedAll(args)]
    ELSE [kind |-> "TASK", text |-> {item.fn}]

\* "DISPATCH: Updated state: %s" % "; ".join("%s -> %s" % (k, v) ...)
UpdatedStateRecord(us) ==
    [kind |-> "DISPATCH", text |-> DOMAIN us \cup UNION {Printed(us[k]) : k \in DOMAIN us}]

\* What the function of the task hands back, already as a tuple.
LoggedFnReturn(item) ==
    IF item.fn = "getUUID" THEN <<(<<"uuid">>)>> ELSE <<(<<"None">>)>>

InitLog ==
    /\ \E item \in {TaskSetRootPassword, TaskSetTimeZone, TaskLoggedGetUUID},
          mounts \in {"/tmp/root", "/mnt"}, pwdtype \in {"pwdhash", "plaintext"},
          pwd \in {"secret123", "hunter2"}, tz \in {"UTC", "Europe/London"},
          fnRaises \in BOOLEAN :
          call = [item |-> item, fnRaises |-> fnRaises,
                  ctx |-> [k \in {"mounts", "root-password", "timezone"} |->
                             IF k = "mounts" THEN <<mounts>>
                             ELSE IF k = "root-password" THEN <<pwdtype, pwd>>
                             ELSE <<tz>>]]
    /\ result = [log |-> <<>>, args |-> <<>>, updated_state |-> EmptyMap]
    /\ cpc = "ready"
    /\ SeqIdle
    /\ DiskIdle

\* Task.execute up to the logger.log call.
LogEvaluating ==
    /\ cpc = "ready"
    /\ LET args == A(call.item.args, call.ctx).args
       IN result' = [result EXCEPT !.args = args,
                                   !.log = Append(@, EvaluatingRecord(call.item, args))]
    /\ cpc' = "evaluating"
    /\ UNCHANGED call
    /\ UNCHANGED <<seqVars, diskVars>>

\* rv = self.fn(*args) and the zip with self.returns; the function may raise.
InvokeFn ==
    /\ cpc = "evaluating"
    /\ IF call.fnRaises
       THEN cpc' = "raised" /\ UNCHANGED result
       ELSE /\ result' = [result EXCEPT !.updated_state =
                             ZipReturns(call.item.returns, LoggedFnReturn(call.item)).map]
            /\ cpc' = "returned"
    /\ UNCHANGED call
    /\ UNCHANGED <<seqVars, diskVars>>

\* if len(updated_state) > 0: logger.log("DISPATCH: Updated state: ...")
LogUpdatedState ==
    /\ cpc = "returned"
    /\ result' = IF DOMAIN result.updated_state # {}
                 THEN [result EXCEPT !.log = Append(@, UpdatedStateRecord(result.updated_state))]
                 ELSE result
    /\ cpc' = "done"
    /\ UNCHANGED call
    /\ UNCHANGED <<seqVars, diskVars>>

NextLog == LogEvaluating \/ InvokeFn \/ LogUpdatedState

SpecLog == InitLog /\ [][NextLog]_vars

----------------------------------------------------------------------------
(* Answerfile.parseRestore *)

\* A disk path is written [prefix, name]: "sda" is ["", "sda"], "/dev/sdb" is
\* ["/dev/", "sdb"].
Path(prefix, name) == [prefix |-> prefix, name |-> name]

\* diskutil.partitionFromId: a path that is no by-id link names itself.
partitionFromId(d) == d

\* normalize_disk, for a text that is no iscsi: spec:
\* if not disk.startswith('/dev/'): disk = '/dev/' + disk
normalize_disk(d) ==
    partitionFromId(IF d.prefix = "/dev/" THEN d
                    ELSE Path("/dev/", d.name))

\* disktools.getMpathMasterOrDisk: a multipath slave names its master.
getMpathMasterOrDisk(d) ==
    IF d = Path("/dev/", "sdc") THEN Path("/dev/mapper/", "mpatha") ELSE d

\* disk = disktools.getMpathMasterOrDisk(normalize_disk(getText(nodes[0])))
NormalizedDisk(text) == getMpathMasterOrDisk(normalize_disk(text))

BackupDiskTexts == {Path("", "sda"), Path("/dev/", "sdb"), Path("/dev/", "sdc")}

BackupDisks == {NormalizedDisk(t) : t \in BackupDiskTexts}

\* product.findXenSourceBackups(): the backups found, each on a root disk.
BackupLists ==
    UNION {{[i \in 1..n |-> [id |-> i, root_disk |-> d[i]]] : d \in [1..n -> BackupDisks]} :
             n \in 0..MaxBackups}

\* backups = [x for x in backups if x.root_disk == disk], when there is exactly
\* one <backup-disk> node.
FilterBackups(backups, nodes) ==
    IF Len(nodes) = 1
    THEN SelectSeq(backups, LAMBDA x : x.root_disk = NormalizedDisk(nodes[1]))
    ELSE backups

\* A parser that takes the first of several backups.
MultipleBackupsIgnored(backups) == FALSE

\* if len(backups) > 1
MultipleBackups(backups) == Len(backups) > 1

AnswerfileException(msg) == [status |-> "raised", error |-> msg, results |-> EmptyMap]

\* Answerfile.parseRestore()
parseRestore(found, nodes) ==
    IF Len(found) = 0
    THEN AnswerfileException("Could not locate exsisting backup.")
    ELSE LET backups == FilterBackups(found, nodes)
         IN IF MultipleBackups(backups)
            THEN AnswerfileException("Multiple backups were found. Unable to deduce which backup to restore from.")
            ELSE IF Len(backups) = 0
            THEN AnswerfileException("Unable to find a backup to restore.")
            ELSE [status |-> "returned", error |-> "",
                  results |-> [k \in {"install-type", "backups", "backup-to-restore"} |->
                                 IF k = "install-type" THEN <<"restore">>
                                 ELSE IF k = "backups" THEN found
                                 ELSE <<backups[1]>>]]

InitRestore ==
    /\ \E found \in BackupLists, nodes \in SeqsUpTo(BackupDiskTexts, 2) :
          call = [found |-> found, nodes |-> nodes]
    /\ result = EmptyMap
    /\ cpc = "ready"
    /\ SeqIdle
    /\ DiskIdle

ParseRestore ==
    /\ cpc = "ready"
    /\ result' = parseRestore(call.found, call.nodes)
    /\ cpc' = "done"
    /\ UNCHANGED call
    /\ UNCHANGED <<seqVars, diskVars>>

NextRestore == ParseRestore

SpecRestore == InitRestore /\ [][NextRestore]_vars

----------------------------------------------------------------------------
(* getPrepSequence: the functions of the tasks, in list order *)

\* if ans['ntp-config-method'] in ("dhcp", "default", "manual") ... elif == "none"
NtpTasks(ans) ==
    IF ans["ntp-config-method"] \in {"dhcp", "default", "manual"} THEN <<"setTimeNTP">>
    ELSE IF ans["ntp-config-method"] = "none" THEN <<"setTimeManually">>
    ELSE <<>>

\* A fresh branch that writes the partition table before removing the blocking VGs.
FreshTasksWriteEarly == <<"writeDom0DiskPartitions", "removeBlockingVGs", "writeGuestDiskPartitions">>

\* if ans['install-type'] == INSTALL_TYPE_FRESH: the three tasks added
FreshTasks == <<"removeBlockingVGs", "writeDom0DiskPartitions", "writeGuestDiskPartitions">>

\* elif ans['install-type'] == INSTALL_TYPE_REINSTALL: the tasks added
ReinstallTasks(ans) ==
    <<"getUpgrader">>
       \o (IF "backup-existing-installation" \in DOMAIN ans
              /\ ans["backup-existing-installation"] = "True"
           THEN <<"doBackup">> ELSE <<>>)
       \o <<"prepareTarget", "prepareUpgrade">>

\* getPrepSequence(ans, interactive)
getPrepSequence(ans, interactive) ==
    <<"getUUID", "getUUID", "randomLabelStr", "partitionTargetDisk">>
       \o NtpTasks(ans)
       \o (IF ~interactive THEN <<"verifyRepos">> ELSE <<>>)
       \o (IF ans["install-type"] = "fresh" THEN FreshTasks
           ELSE IF ans["install-type"] = "reinstall" THEN ReinstallTasks(ans)
           ELSE <<>>)
       \o <<"createDom0DiskFilesystems", "mountVolumes">>

InitPrep ==
    /\ \E ntp \in {"dhcp", "default", "manual", "none", "other"},
          type \in {"fresh", "reinstall", "restore"},
          backup \in {"absent", "False", "True"}, interactive \in BOOLEAN :
          call = [interactive |-> interactive,
                  ans |-> [k \in {"ntp-config-method", "install-type"}
                                   \cup (IF backup = "absent" THEN {}
                                         ELSE {"backup-existing-installation"}) |->
                             IF k = "ntp-config-method" THEN ntp
                             ELSE IF k = "install-type" THEN type
                             ELSE backup]]
    /\ result = EmptyMap
    /\ cpc = "ready"
    /\ SeqIdle
    /\ DiskIdle

BuildPrepSequence ==
    /\ cpc = "ready"
    /\ result' = [seq |-> getPrepSequence(call.ans, call.interactive)]
    /\ cpc' = "done"
    /\ UNCHANGED call
    /\ UNCHANGED <<seqVars, diskVars>>

NextPrep == BuildPrepSequence

SpecPrep == InitPrep /\ [][NextPrep]_vars

----------------------------------------------------------------------------
(* mountVolumes, the failure unwind, and umountVolumes *)

\* A path is the tuple of its components; os.path.join appends components.
Join(path, more) == path \o more

RootDir == <<"tmp", "root">>

\* constants.EXTRA_SCRIPTS_DIR
ExtraScriptsDir == <<"tmp", "extra-scripts">>

EfiVars == <<"sys", "firmware", "efi", "efivars">>

\* a as a tuple holding the mount point: (mountdir, )
AsTuple(path) == [isTuple |-> TRUE, path |-> path]

\* a as the bare string: (tag, util.umount, mountdir, ) is a 3-tuple whose third
\* item is the string itself.
AsString(path) == [isTuple |-> FALSE, path |-> path]

\* An entry (tag, f, a) with tag "umount-<path>" and f util.umount.
UmountEntry(path, a) == [tag |-> [prefix |-> "umount-", path |-> path], f |-> "util.umount", a |-> a]

\* The mounts mountVolumes performs, in order, each with the cleanup entries it
\* has appended to new_cleanup by the time the next mount is attempted.
MountSteps(logs_partition) ==
    <<[point |-> RootDir, entries |-> <<>>],
      [point |-> ExtraScriptsDir, entries |-> <<>>],
      [point |-> Join(RootDir, <<"mnt">>),
       entries |-> <<UmountEntry(RootDir, AsTuple(RootDir)),
                     UmountEntry(Join(RootDir, <<"mnt">>), AsTuple(Join(RootDir, <<"mnt">>)))>>]>>
    \o [i \in 1..3 |->
          LET mountdir == Join(RootDir, <<(<<"proc", "sys", "dev">>)[i]>>)
          IN [point |-> mountdir, entries |-> <<UmountEntry(mountdir, AsString(mountdir))>>]]
    \o <<[point |-> Join(RootDir, <<"tmp">>),
          entries |-> <<UmountEntry(Join(RootDir, <<"tmp">>), AsString(Join(RootDir, <<"tmp">>)))>>],
         [point |-> Join(RootDir, <<"boot", "efi">>),
          entries |-> <<UmountEntry(Join(RootDir, <<"boot", "efi">>),
                                    AsTuple(Join(RootDir, <<"boot", "efi">>)))>>],
         [point |-> Join(RootDir, EfiVars),
          entries |-> <<UmountEntry(Join(RootDir, EfiVars), AsTuple(Join(RootDir, EfiVars)))>>]>>
    \o (IF logs_partition
        THEN <<[point |-> Join(RootDir, <<"var", "log">>),
                entries |-> <<UmountEntry(Join(RootDir, <<"var", "log">>),
                                          AsTuple(Join(RootDir, <<"var", "log">>)))>>]>>
        ELSE <<>>)

\* The mounts dictionary mountVolumes returns.
MountsDict(logs_partition) ==
    [k \in {"root", "boot", "esp"} \cup (IF logs_partition THEN {"logs"} ELSE {}) |->
       IF k = "root" THEN RootDir
       ELSE IF k = "boot" THEN Join(RootDir, <<"boot">>)
       ELSE IF k = "esp" THEN Join(RootDir, <<"boot", "efi">>)
       ELSE Join(RootDir, <<"var", "log">>)]

\* f(*a): the positional arguments the call receives.  A tuple gives its items;
\* a string gives its pieces one by one (here cut at every "/": "/", "tmp", "/",
\* "root", ...; Python cuts at every character), always more than one.
Splat(a) ==
    IF a.isTuple THEN <<a.path>>
    ELSE [i \in 1..(2 * Len(a.path)) |->
            IF i % 2 = 1 THEN <<"/">> ELSE <<a.path[i \div 2]>>]

\* util.umount(mountpoint, force=False): more than two positional arguments are
\* a TypeError, and a piece of a path names no mount point.
UmountAccepts(args) == Len(args) = 1

\* doCleanup(actions): the util.umount calls that go through, in order; a call
\* that raises is logged and skipped.
DoCleanupUmounts(actions) ==
    LET calls == [i \in 1..Len(actions) |-> Splat(actions[i].a)]
        ok == SelectSeq(calls, UmountAccepts)
    IN [i \in 1..Len(ok) |-> ok[i][1]]

\* An umountVolumes that unmounts the root first.
UmountOrderRootFirst(mounts) ==
    <<mounts["root"], Join(mounts["root"], <<"mnt">>), ExtraScriptsDir>>
       \o (IF "esp" \in DOMAIN mounts
           THEN <<mounts["esp"], Join(mounts["root"], EfiVars)>> ELSE <<>>)
       \o (IF "logs" \in DOMAIN mounts THEN <<mounts["logs"]>> ELSE <<>>)
       \o <<Join(mounts["root"], <<"tmp">>)>>
       \o [i \in 1..3 |-> Join(mounts["root"], <<(<<"proc", "sys", "dev">>)[i]>>)]

\* umountVolumes(mounts, cleanup): the util.umount calls, in order.
UmountOrder(mounts) ==
    <<Join(mounts["root"], <<"mnt">>), ExtraScriptsDir>>
       \o (IF "esp" \in DOMAIN mounts
           THEN <<mounts["esp"], Join(mounts["root"], EfiVars)>> ELSE <<>>)
       \o (IF "logs" \in DOMAIN mounts THEN <<mounts["logs"]>> ELSE <<>>)
       \o <<Join(mounts["root"], <<"tmp">>)>>
       \o [i \in 1..3 |-> Join(mounts["root"], <<(<<"proc", "sys", "dev">>)[i]>>)]
       \o <<mounts["root"]>>

\* path starts with the components of dir (tag.startswith("umount-%s" % dir)).
StartsWith(path, dir) == Len(path) >= Len(dir) /\ SubSeq(path, 1, Len(dir)) = dir

\* filterCleanup: keep the entries whose tag starts with none of umount-<root>,
\* umount-<root>/mnt, umount-<boot>.
FilterCleanup(mounts, cleanup) ==
    SelectSeq(cleanup, LAMBDA e :
        /\ ~StartsWith(e.tag.path, mounts["root"])
        /\ ~StartsWith(e.tag.path, Join(mounts["root"], <<"mnt">>))
        /\ ~StartsWith(e.tag.path, mounts["boot"]))

\* A cleanup entry registered before mountVolumes ran.
EarlierEntry == UmountEntry(<<"mnt", "earlier">>, AsTuple(<<"mnt", "earlier">>))

InitMount ==
    /\ \E logs_partition \in BOOLEAN, cleanup \in {<<>>, <<EarlierEntry>>} :
          call = [logs_partition |-> logs_partition, cleanup |-> cleanup]
    /\ result = [mounted |-> <<>>, new_cleanup |-> <<>>, mounts |-> EmptyMap,
                 cleanup |-> <<>>, umounts |-> <<>>]
    /\ cpc = "mounting"
    /\ SeqIdle
    /\ DiskIdle

\* The next mount of mountVolumes succeeds; new_cleanup = cleanup + [...] is a
\* fresh list, the list of the context is not touched.
MountNext ==
    /\ cpc = "mounting"
    /\ Len(result.mounted) < Len(MountSteps(call.logs_partition))
    /\ LET step == MountSteps(call.logs_partition)[Len(result.mounted) + 1]
       IN result' = [result EXCEPT
                        !.mounted = Append(@, step.point),
                        !.new_cleanup = (IF @ = <<>> THEN call.cleanup ELSE @) \o step.entries]
    /\ UNCHANGED <<call, cpc>>
    /\ UNCHANGED <<seqVars, diskVars>>

\* The next mount raises: executeSequence runs doCleanup(answers['cleanup']) on
\* the list of the context and re-raises.
MountRaises ==
    /\ cpc = "mounting"
    /\ Len(result.mounted) < Len(MountSteps(call.logs_partition))
    /\ result' = [result EXCEPT !.umounts = DoCleanupUmounts(call.cleanup)]
    /\ cpc' = "unwound"
    /\ UNCHANGED call
    /\ UNCHANGED <<seqVars, diskVars>>

\* return mounts, new_cleanup, merged into the context by executeSequence.
MountReturns ==
    /\ cpc = "mounting"
    /\ Len(result.mounted) = Len(MountSteps(call.logs_partition))
    /\ result' = [result EXCEPT !.mounts = MountsDict(call.logs_partition),
                                !.cleanup = result.new_cleanup]
    /\ cpc' = "mounted"
    /\ UNCHANGED call
    /\ UNCHANGED <<seqVars, diskVars>>

\* A later task raises: doCleanup on the list mountVolumes returned.
LaterTaskRaises ==
    /\ cpc = "mounted"
    /\ result' = [result EXCEPT !.umounts = DoCleanupUmounts(result.cleanup)]
    /\ cpc' = "unwound"
    /\ UNCHANGED call
    /\ UNCHANGED <<seqVars, diskVars>>

\* umountVolumes(mounts, cleanup) makes its next util.umount call.
UmountNext ==
    /\ cpc \in {"mounted", "umounting"}
    /\ Len(result.umounts) < Len(UmountOrder(result.mounts))
    /\ result' = [result EXCEPT
                     !.umounts = Append(@, UmountOrder(result.mounts)[Len(@) + 1])]
    /\ cpc' = "umounting"
    /\ UNCHANGED call
    /\ UNCHANGED <<seqVars, diskVars>>

\* umountVolumes returns the filtered cleanup list.
UmountReturns ==
    /\ cpc = "umounting"
    /\ Len(result.umounts) = Len(UmountOrder(result.mounts))
    /\ result' = [result EXCEPT !.cleanup = FilterCleanup(result.mounts, @)]
    /\ cpc' = "umounted"
    /\ UNCHANGED call
    /\ UNCHANGED <<seqVars, diskVars>>

NextMount ==
    MountNext \/ MountRaises \/ MountReturns \/ LaterTaskRaises \/ UmountNext \/ UmountReturns

SpecMount == InitMount /\ [][NextMount]_vars

----------------------------------------------------------------------------
(* Claims about executeSequence *)

CleanupTags(a) == [i \in 1..Len(a["cleanup"]) |-> a["cleanup"][i].tag]

\* A task of the current phase raised and executeSequence has unwound.
TaskFailed == pc = "raised" /\ started # <<>>

\* C1: when a task raises, the cleanup actions in the cleanup list at that
\* moment are called exactly once each, in the reverse of their registration
\* order, and no others.
C1_ReverseOrder == TaskFailed => invoked = Reverse(CleanupTags(answers))

\* C2: when a task raises E and cleanup actions raise while unwinding, all the
\* cleanup actions of the list are still called and E itself is what
\* executeSequence raises.
C2_CleanupBestEffort ==
    TaskFailed =>
        /\ exc = [kind |-> "task", at |-> Len(started)]
        /\ Len(invoked) = Len(answers["cleanup"])
        /\ Range(invoked) = Range(CleanupTags(answers))
        /\ failedLog \subseteq Range(invoked)

C2_Witness ==
    /\ TaskFailed
    /\ Len(invoked) >= 2
    /\ invoked[1] \in failedLog

\* C3: cleanup actions registered in a non-final phase that succeeded stay in
\* the cleanup list during the following phases, and a failure in a following
\* phase unwinds them too.
C3_CarriedOver ==
    /\ pc = "running" => carried \subseteq Range(CleanupTags(answers))
    /\ TaskFailed => carried \subseteq Range(invoked)

\* C4: the tasks run in list order, each at most once; a task starts only after
\* all the tasks before it returned and were merged; none is skipped; after a
\* task raised no task runs and the failed one is not run again.
C4_StrictOrder ==
    /\ started = [i \in 1..Len(started) |-> i]
    /\ merged = [i \in 1..Len(merged) |-> i]
    /\ Len(started) <= Len(sequence)
    /\ pc = "running" => merged = started
    /\ TaskFailed => Len(merged) = Len(started) - 1
    /\ pc \in {"done", "complete"} => merged = started /\ Len(started) = Len(sequence)

C4_Witness ==
    /\ TaskFailed
    /\ Len(started) = 2
    /\ Len(sequence) = 3
    /\ "installation-uuid" \in DOMAIN answers

\* C5: during executeSequence the dictionary changes only by the merge of the
\* outputs of a task that returned: a task that raises leaves it as it was, and
\* running a task changes no value stored in it.
C5_OnlyMergeChangesAnswers ==
    /\ (pc = "running" /\ idx > 0) => answers = Merge(before, updated_state)
    /\ TaskFailed => answers = before

\* C6: a final phase that succeeds has called every cleanup action of the list
\* and removed the list from the dictionary; a non-final phase that succeeds has
\* called none and the list is still there.
C6_FinalPhaseCleansUp ==
    [][(pc = "running" /\ pc' \in {"done", "complete"}) =>
          IF final
          THEN /\ "cleanup" \notin DOMAIN answers'
               /\ Len(invoked') = Len(answers["cleanup"])
               /\ Range(invoked') = Range(CleanupTags(answers))
          ELSE /\ invoked' = <<>>
               /\ "cleanup" \in DOMAIN answers'
               /\ answers'["cleanup"] = answers["cleanup"]]_vars

C6_Witness == pc = "complete" /\ Len(invoked) >= 2

----------------------------------------------------------------------------
(* Claims about writeDom0DiskPartitions *)

\* writeDom0DiskPartitions has been called (the planner returned a plan).
Called == dpc \notin {"plan", "planfailed"}

DiskTooSmallOrMissing ==
    ~disk.exists \/ disk.sizeGB < constants.min_primary_disk_size

\* C8: the table is committed exactly once, as the last operation, after all the
\* planned deletions and creations succeeded; when a step before the commit
\* raises, commit is never called and the table on the disk is as it was.
C8_CommitOnceLast ==
    Called =>
        /\ commits <= 1
        /\ \A i \in 1..Len(ops) : ops[i].op = "commit" => i = Len(ops)
        /\ dpc = "returned" =>
              /\ commits = 1
              /\ ops[Len(ops)] = Op("commit", 0)
              /\ ondisk = tool
              /\ \A n \in DOMAIN disk.table :
                    n >= plan.primary_partnum => \E i \in 1..Len(ops) : ops[i] = Op("delete", n)
              /\ \A j \in 1..Len(CreateCalls(plan)) :
                    \E i \in 1..Len(ops) : ops[i] = Op("create", CreateCalls(plan)[j].number)
        /\ dpc # "returned" => commits = 0 /\ ondisk = disk.table

C8_Witness ==
    /\ dpc = "returned"
    /\ \E i \in 1..Len(ops) : ops[i].op = "delete"
    /\ ondisk # disk.table

\* C9: a target disk that does not exist or is smaller than the minimum primary
\* disk size makes writeDom0DiskPartitions raise before any partition is deleted
\* or created, and nothing is committed.
C9_PreconditionsFirst ==
    (Called /\ DiskTooSmallOrMissing) =>
        /\ dpc \in {"call", "raised"}
        /\ ops = <<>>
        /\ commits = 0
        /\ tool = EmptyMap
        /\ ondisk = disk.table

C9_Witness ==
    /\ dpc = "raised"
    /\ disk.exists
    /\ disk.sizeGB < constants.min_primary_disk_size
    /\ \E n \in DOMAIN disk.table : n >= plan.primary_partnum

\* C10: every partition found on the disk with a number at or above the planned
\* root number is deleted, and no partition with a lower number is deleted,
\* recreated or changed.
C10_LowerPartitionsKept ==
    Called =>
        /\ \A i \in 1..Len(ops) :
              ops[i].op \in {"delete", "create"} => ops[i].num >= plan.primary_partnum
        /\ dpc \in {"create", "remap", "commit", "returned"} =>
              \A n \in DOMAIN disk.table :
                 n >= plan.primary_partnum => \E i \in 1..Len(ops) : ops[i] = Op("delete", n)
        /\ dpc \in {"delete", "create", "remap", "commit", "returned"} =>
              \A n \in DOMAIN disk.table :
                 n < plan.primary_partnum => n \in DOMAIN tool /\ tool[n] = disk.table[n]
        /\ \A n \in DOMAIN disk.table :
              n < plan.primary_partnum => n \in DOMAIN ondisk /\ ondisk[n] = disk.table[n]

C10_Witness ==
    /\ dpc = "returned"
    /\ plan.primary_partnum = 2
    /\ {1, 2, 3} \subseteq DOMAIN disk.table
    /\ ondisk[1] = disk.table[1]

\* The createPartition calls the normal layout has made, as recorded.
CreatesMade == SelectSeq(ops, LAMBDA o : o.op = "create")

PhysicalOrder == <<"logs", "backup", "root", "boot", "swap", "storage">>

PhysicalIndex(label) == CHOOSE i \in 1..Len(PhysicalOrder) : PhysicalOrder[i] = label

\* C11: the partitions are created in the physical order logs, backup, root,
\* boot, swap, storage with a strictly increasing order index, backup and
\* storage left out when their number is not positive, and storage is the only
\* one created without a size, reaching to the end of the disk.
C11_CreationOrder ==
    (Called /\ dpc \in {"remap", "commit", "returned"}) =>
        LET calls == CreateCalls(plan)
            n == Len(calls)
        IN /\ Len(CreatesMade) >= n
           /\ \A i \in 1..n : CreatesMade[i].num = calls[i].number
           /\ {calls[i].label : i \in 1..n} =
                 Range(PhysicalOrder)
                    \ ((IF plan.backup_partnum > 0 THEN {} ELSE {"backup"})
                       \cup (IF plan.storage_partnum > 0 THEN {} ELSE {"storage"}))
           /\ \A i, j \in 1..n :
                 i < j => /\ PhysicalIndex(calls[i].label) < PhysicalIndex(calls[j].label)
                          /\ calls[i].order < calls[j].order
           /\ \A i \in 1..n : calls[i].size = 0 <=> calls[i].label = "storage"
           /\ (dpc = "remap" \/ plan.sr_at_end) =>
                 /\ \A i, j \in 1..n :
                       i < j => tool[calls[i].number].start < tool[calls[j].number].start
                 /\ \A i \in 1..n :
                       calls[i].label = "storage" =>
                          tool[calls[i].number].start + tool[calls[i].number].size
                             = DiskMiB(disk.sizeGB)

C11_Witness ==
    /\ dpc = "returned"
    /\ plan.sr_at_end
    /\ plan.primary_partnum = 2
    /\ plan.storage_partnum > 0
    /\ Len(CreatesMade) = 6

\* The table the normal layout builds, before any remap.
NormalLayout ==
    ApplyCreates([n \in {m \in DOMAIN disk.table : m < plan.primary_partnum} |->
                     disk.table[n]],
                 DiskMiB(disk.sizeGB), CreateCalls(plan))

\* C12: with sr_at_end false the committed table has storage starting before
\* root and before backup, and holds the same partition numbers, with root,
\* backup and storage keeping the size, type id, active flag and label the
\* normal layout gave them.
C12_StorageFirstOfTrio ==
    (Called /\ dpc = "returned" /\ ~plan.sr_at_end) =>
        LET p == plan.primary_partnum
            b == plan.backup_partnum
            s == plan.storage_partnum
        IN /\ {p, b, s} \subseteq DOMAIN ondisk
           /\ ondisk[s].start < ondisk[p].start
           /\ ondisk[s].start < ondisk[b].start
           /\ DOMAIN ondisk = DOMAIN NormalLayout
           /\ \A n \in {p, b, s} :
                 /\ ondisk[n].size = NormalLayout[n].size
                 /\ ondisk[n].id = NormalLayout[n].id
                 /\ ondisk[n].active = NormalLayout[n].active
                 /\ ondisk[n].partlabel = NormalLayout[n].partlabel
           /\ \A n \in DOMAIN ondisk \ {p, b, s} : ondisk[n] = NormalLayout[n]

C12_Witness ==
    /\ dpc = "returned"
    /\ ~plan.sr_at_end
    /\ commits = 1
    /\ plan.storage_partnum \in DOMAIN ondisk
    /\ ondisk[plan.storage_partnum].start < ondisk[plan.primary_partnum].start
    /\ ondisk # NormalLayout

----------------------------------------------------------------------------
(* Claims about partitionTargetDisk *)

\* A fresh install on a disk without utility partition, preserve-first-partition
\* left at if-utility.
FreshDefaultCall ==
    /\ cpc = "done"
    /\ FreshCall
    /\ UtilityPartitions(call.probe.table) = {}
    /\ call.preserve_first_partition = "if-utility"

C14_StorageRequested ==
    /\ (Planned /\ FreshCall /\ call.create_sr_part) =>
          LET r == result.plan[1]
          IN result.plan = <<r, r + 1, r + 2, r + 3, r + 4, r + 5>>
    /\ (FreshDefaultCall /\ call.create_sr_part) =>
          result.ok /\ result.plan = <<1, 2, 3, 4, 5, 6>>

C14_Witness ==
    /\ FreshDefaultCall
    /\ call.create_sr_part
    /\ result.ok
    /\ result.plan = <<1, 2, 3, 4, 5, 6>>

\* C15: whenever the planner returns, root, backup, boot, logs and swap are
\* pairwise distinct positive numbers and storage is 0 or a positive number
\* distinct from the other five.
C15_DisjointNumbers ==
    Planned =>
        LET t == result.plan
            five == {1, 2, 4, 5, 6}
        IN /\ \A i \in five : t[i] > 0
           /\ \A i, j \in five : i # j => t[i] # t[j]
           /\ \/ t[3] = 0
              \/ t[3] > 0 /\ \A i \in five : t[i] # t[3]

UpgradeCall == cpc = "done" /\ call.existing.present

\* C16: an upgrade returns the existing root number unchanged, boot = the number
\* of the existing boot partition if the installation has a boot device and
\* root + 3 otherwise, storage = root + 2 if the existing disk has a partition
\* with that number and 0 otherwise; the outcome is the same for every value of
\* the preserve-first-partition and storage-requested flags.
C16_UpgradeInherits ==
    UpgradeCall =>
        LET ex == call.existing
            r == ex.root
        IN /\ result.ok =>
                /\ result.plan[1] = r
                /\ result.plan[4] = (IF ex.hasBoot THEN ex.boot ELSE r + 3)
                /\ result.plan[3] = (IF r + 2 \in DOMAIN ex.table THEN r + 2 ELSE 0)
           /\ \A pfp \in {"true", "false", "if-utility"}, sr \in BOOLEAN :
                 partitionTargetDisk(call.probe, ex, pfp, sr) = result

C16_Witness ==
    /\ UpgradeCall
    /\ result.ok
    /\ call.existing.hasBoot
    /\ call.existing.root = 2
    /\ result.plan = <<2, 3, 4, 5, 6, 7>>
    /\ call.preserve_first_partition = "false"
    /\ ~call.create_sr_part

\* The existing boot partition's record has an 'id' and it is the EFI-boot id.
BootIsEFI ==
    /\ call.existing.boot \in DOMAIN call.existing.table
    /\ call.existing.table[call.existing.boot].id = "EFI_BOOT"

\* C17: on an upgrade of an installation with a boot partition, a missing or
\* non-EFI type id of that partition makes the planner raise and return no plan;
\* with the EFI-boot id it returns a plan.
C17_BootMustBeEFI ==
    (UpgradeCall /\ call.existing.hasBoot) =>
        /\ ~BootIsEFI => (~result.ok /\ "plan" \notin DOMAIN result)
        /\ BootIsEFI => result.ok

C17_Witness ==
    /\ UpgradeCall
    /\ call.existing.hasBoot
    /\ call.existing.boot \in DOMAIN call.existing.table
    /\ call.existing.table[call.existing.boot].id = "LINUX"
    /\ ~result.ok

\* A fresh install asked to preserve the first partition (always or if-utility)
\* of a disk whose partition 1 is a utility partition.
PreserveUtilityCall(tableType) ==
    /\ cpc = "done"
    /\ FreshCall
    /\ call.probe.partTableType = tableType
    /\ 1 \in UtilityPartitions(call.probe.table)
    /\ call.preserve_first_partition \in {"true", "if-utility"}

\* C18 as stated: on a DOS disk with a utility partition at number 1, asking to
\* preserve the first partition yields a plan with root numbered 2.
C18_DosKeepsUtility ==
    PreserveUtilityCall("DOS") => (result.ok /\ result.plan[1] = 2)

\* C18: on a DOS disk with a utility partition at number 1, asking to preserve
\* the first partition (always or if-utility) makes the planner raise
\* "Preserving initial partition on DOS unsupported" and return no plan; on a
\* GPT disk whose only utility partition is number 1 the same request yields a
\* plan with root numbered 2.
C18_DosPreserveRaises ==
    /\ PreserveUtilityCall("DOS") =>
          /\ ~result.ok
          /\ "plan" \notin DOMAIN result
          /\ result.error = "Preserving initial partition on DOS unsupported"
    /\ (PreserveUtilityCall("GPT") /\ UtilityPartitions(call.probe.table) = {1}) =>
          (result.ok /\ result.plan[1] = 2)

C18_Witness ==
    /\ PreserveUtilityCall("DOS")
    /\ call.preserve_first_partition = "if-utility"
    /\ UtilityPartitions(call.probe.table) = {1}
    /\ ~result.ok

----------------------------------------------------------------------------
(* Claims about Task.execute *)

\* C19: Task.execute raises, and returns no mapping, whenever the function was
\* called and handed back a number of values different from the number of
\* output keys; no returned value is left out of the mapping.
C19_ArityMismatchFails ==
    (cpc = "done" /\ result.invoked /\ ~call.fnRaises
       /\ ValuesReturned(call.raw) # Len(call.returns)) =>
        result.status = "raised"

\* A declared input key is absent from the context.
KeyAbsent == \E i \in 1..Len(call.params) : call.params[i] \notin DOMAIN call.ctx

\* C20 as stated: with a declared input key absent from the context, execute
\* fails with a missing-key error and the function is not invoked.
C20_MissingKeyFails ==
    (cpc = "done" /\ KeyAbsent) =>
        (result.status = "raised" /\ result.error = "KeyError" /\ ~result.invoked)

\* C20: with a declared input key absent from the context, a task bound with
\* A (dict.get) invokes its function with None in place of the absent value and
\* raises no missing-key error; a task whose argument lambda indexes the context
\* fails with KeyError and does not invoke its function.
C20_AbsentKeyIsNone ==
    (cpc = "done" /\ KeyAbsent) =>
        /\ call.binding \in {"A", "As"} =>
              /\ result.invoked
              /\ result.error # "KeyError"
              /\ Len(result.args) = Len(call.params)
              /\ \A i \in 1..Len(call.params) :
                    result.args[i] = (IF call.params[i] \in DOMAIN call.ctx
                                      THEN call.ctx[call.params[i]] ELSE "None")
        /\ call.binding = "index" =>
              (result.status = "raised" /\ result.error = "KeyError" /\ ~result.invoked)

C20_Witness ==
    /\ cpc = "done"
    /\ call.binding = "A"
    /\ call.params = <<"p", "q">>
    /\ DOMAIN call.ctx = {"p"}
    /\ call.ctx["p"] = "x"
    /\ result.status = "returned"
    /\ result.args = <<"x", "None">>

\* dict.get on a context: the value under the key, None when it is absent.
Get(a, k) == IF k \in DOMAIN a THEN a[k] ELSE "None"

\* C21: a task bound with As is handed the values the context held when its
\* Sequence was built, whatever has been written under those keys since; a task
\* bound with A is handed the values the context holds when it executes.
C21_EarlyAndLateBinding ==
    (cpc = "done" /\ call.binding \in {"A", "As"}) =>
        /\ result.invoked
        /\ Len(result.args) = Len(call.params)
        /\ \A i \in 1..Len(call.params) :
              result.args[i] = (IF call.binding = "As"
                                THEN Get(call.built, call.params[i])
                                ELSE Get(call.ctx, call.params[i]))

----------------------------------------------------------------------------
(* Claims about logging *)

----------------------------------------------------------------------------
(* Claims about Answerfile.parseRestore *)

\* The backups left after the optional <backup-disk> filter.
Remaining ==
    IF Len(call.nodes) = 1
    THEN SelectSeq(call.found, LAMBDA x : x.root_disk = NormalizedDisk(call.nodes[1]))
    ELSE call.found

NotFoundErrors == {"Could not locate exsisting backup.", "Unable to find a backup to restore."}

AmbiguityError == "Multiple backups were found. Unable to deduce which backup to restore from."

\* C23: parseRestore stages a backup under 'backup-to-restore' exactly when one
\* backup remains after the optional backup-disk filter, and then it is that
\* backup; with none remaining it raises a not-found error; with several it
\* raises the ambiguity error, whose message is none of the not-found ones.
C23_ExactlyOneBackup ==
    cpc = "done" =>
        /\ (result.status = "returned" /\ "backup-to-restore" \in DOMAIN result.results)
              <=> Len(Remaining) = 1
        /\ Len(Remaining) = 1 => result.results["backup-to-restore"] = <<Remaining[1]>>
        /\ Len(Remaining) = 0 => (result.status = "raised" /\ result.error \in NotFoundErrors)
        /\ Len(Remaining) > 1 => (result.status = "raised" /\ result.error = AmbiguityError)
        /\ AmbiguityError \notin NotFoundErrors

C23_Witness ==
    /\ cpc = "done"
    /\ Len(call.found) = 3
    /\ Len(call.nodes) = 1
    /\ Len(Remaining) = 1
    /\ result.status = "returned"
    /\ result.results["backup-to-restore"][1].id = 2

----------------------------------------------------------------------------
(* Claims about getPrepSequence *)

\* The positions of the tasks of a function in the Sequence built.
Positions(fn) == {i \in 1..Len(result.seq) : result.seq[i] = fn}

\* Every task of function f comes before every task of function g.
Precedes(f, g) == \A i \in Positions(f), j \in Positions(g) : i < j

\* C24: in every preparation Sequence, writeDom0DiskPartitions is present only
\* for a fresh install; when present it comes after partitionTargetDisk and
\* after removeBlockingVGs, both of which are then present, and before
\* createDom0DiskFilesystems; in every mode createDom0DiskFilesystems comes
\* before mountVolumes, which is the last task.
C24_PrepOrder ==
    cpc = "done" =>
        /\ Positions("writeDom0DiskPartitions") # {} <=> call.ans["install-type"] = "fresh"
        /\ Positions("writeDom0DiskPartitions") # {} =>
              /\ Positions("partitionTargetDisk") # {}
              /\ Positions("removeBlockingVGs") # {}
              /\ Precedes("partitionTargetDisk", "writeDom0DiskPartitions")
              /\ Precedes("removeBlockingVGs", "writeDom0DiskPartitions")
              /\ Precedes("writeDom0DiskPartitions", "createDom0DiskFilesystems")
        /\ Positions("createDom0DiskFilesystems") # {}
        /\ Positions("mountVolumes") = {Len(result.seq)}
        /\ Precedes("createDom0DiskFilesystems", "mountVolumes")

C24_Witness ==
    /\ cpc = "done"
    /\ call.ans["install-type"] = "fresh"
    /\ ~call.interactive
    /\ Positions("writeDom0DiskPartitions") = {8}
    /\ Len(result.seq) = 11

\* A fresh install with preserve-first-partition = if-utility.
IfUtilityCall ==
    /\ cpc = "done"
    /\ FreshCall
    /\ call.preserve_first_partition = "if-utility"

UtilityError == "Installer only supports a single Utility Partition at partition 1"

\* C25 as stated: with if-utility the planner raises the multiple-utility
\* partitions error exactly when the disk has two or more utility partitions,
\* and returns a plan when it has exactly one, whatever its number.
C25_OnlyMultipleUtilityRaises ==
    IfUtilityCall =>
        LET utilparts == UtilityPartitions(call.probe.table)
        IN /\ (~result.ok /\ result.error = UtilityError) <=> Cardinality(utilparts) >= 2
           /\ Cardinality(utilparts) = 1 => result.ok

\* C25: with if-utility on a GPT disk the planner raises the utility-partition
\* error exactly when some utility partition has a number above 1, which every
\* disk with two or more utility partitions has; with partition 1 the only
\* utility partition it returns a plan with root 2, with none a plan with
\* root 1.  On a DOS disk with a utility partition it raises the DOS error.
C25_UtilityOnlyAtFirst ==
    IfUtilityCall =>
        LET utilparts == UtilityPartitions(call.probe.table)
        IN IF call.probe.partTableType = "DOS" /\ utilparts # {}
           THEN ~result.ok /\ result.error = "Preserving initial partition on DOS unsupported"
           ELSE /\ (~result.ok /\ result.error = UtilityError)
                      <=> \E n \in utilparts : n > 1
                /\ Cardinality(utilparts) >= 2 => ~result.ok
                /\ utilparts = {1} => (result.ok /\ result.plan[1] = 2)
                /\ utilparts = {} => (result.ok /\ result.plan[1] = 1)

C25_Witness ==
    /\ IfUtilityCall
    /\ call.probe.partTableType = "GPT"
    /\ UtilityPartitions(call.probe.table) = {2}
    /\ ~result.ok
    /\ result.error = UtilityError

----------------------------------------------------------------------------
(* Claims about mountVolumes and umountVolumes *)

\* C26: if mountVolumes raises after it has performed one or more mounts, the
\* unwind of executeSequence unmounts every mount point it had mounted.
C26_FailedMountUnwound ==
    (cpc = "unwound" /\ result.mounts = EmptyMap /\ result.mounted # <<>>) =>
        \A m \in Range(result.mounted) : m \in Range(result.umounts)

\* The entries mountVolumes added to the list it was given.
AddedEntries == SubSeq(result.cleanup, Len(call.cleanup) + 1, Len(result.cleanup))

\* C27: the cleanup list a successful mountVolumes returns starts with the
\* list it was given and holds, for every mount performed, one added entry
\* whose action run as f(*a) calls util.umount with that mount point as its
\* only argument.
C27_EntryPerMount ==
    cpc = "mounted" =>
        /\ Len(result.cleanup) >= Len(call.cleanup)
        /\ SubSeq(result.cleanup, 1, Len(call.cleanup)) = call.cleanup
        /\ \A m \in Range(result.mounted) :
              Cardinality({i \in 1..Len(AddedEntries) :
                             /\ AddedEntries[i].f = "util.umount"
                             /\ Splat(AddedEntries[i].a) = <<m>>}) = 1

\* Mount point inner lies below mount point outer.
NestedUnder(inner, outer) == inner # outer /\ StartsWith(inner, outer)

----------------------------------------------------------------------------
(* Claims about the committed partition table *)

\* The extents [start, start + size) of two partitions do not meet.
Disjoint(a, b) == a.start + a.size <= b.start \/ b.start + b.size <= a.start

\* C28: in the table writeDom0DiskPartitions commits, no two partitions overlap
\* and every partition ends within the disk, with sr_at_end true and false.
C28_NoOverlapWithinDisk ==
    (Called /\ dpc = "returned") =>
        /\ \A n, m \in DOMAIN ondisk : n # m => Disjoint(ondisk[n], ondisk[m])
        /\ \A n \in DOMAIN ondisk :
              ondisk[n].start + ondisk[n].size <= DiskMiB(disk.sizeGB)

\* C29: with sr_at_end false and no storage partition in the plan,
\* writeDom0DiskPartitions, once its partitions are created, goes on to commit
\* without an error, and the committed table holds logs, backup, root, boot
\* and swap.
C29_RemapWithoutStorage ==
    (Called /\ ~plan.sr_at_end /\ plan.storage_partnum <= 0
       /\ Len(CreatesMade) >= Len(CreateCalls(plan))) =>
        /\ dpc # "raised"
        /\ dpc = "returned" =>
              {plan.logs_partnum, plan.backup_partnum, plan.primary_partnum,
               plan.boot_partnum, plan.swap_partnum} \subseteq DOMAIN ondisk

====
